---- MODULE Spec2Model ----
(***************************************************************************)
(* The review-state log of asreview (state/hdf5.py, state/base.py): one    *)
(* HDF5State handle, the container file it is opened on, and the calls a   *)
(* sequential learning loop makes on it.  Every call is one action; the    *)
(* variable ret holds what the call returned or raised until the caller    *)
(* takes it (Return).                                                      *)
(*                                                                         *)
(* Python values: an optional value (None or x) is <<>> or <<x>>; a string *)
(* that the code indexes or concatenates is a sequence of characters; an   *)
(* exception is its class name and the source line that raises it.         *)
(***************************************************************************)
EXTENDS Integers, Sequences, FiniteSets, TLC

VARIABLES read_only, pc, f, settings_metadata, results, record_table, disk, ret

vars == <<read_only, pc, f, settings_metadata, results, record_table, disk, ret>>

(***************************************************************************)
(* Bounds of the model.                                                    *)
(***************************************************************************)
\* Longest log a stored container holds.
MaxRows == 2
\* Largest query number a column read is called with.
MaxQuery == 3

(***************************************************************************)
(* Python values.                                                          *)
(***************************************************************************)
None == <<>>
Some(x) == <<x>>
IsNone(o) == o = <<>>
Val(o) == o[1]

Digit(d) ==
    CASE d = 0 -> "0" [] d = 1 -> "1" [] d = 2 -> "2" [] d = 3 -> "3"
      [] d = 4 -> "4" [] d = 5 -> "5" [] d = 6 -> "6" [] d = 7 -> "7"
      [] d = 8 -> "8" [] OTHER -> "9"

\* str(n) of an integer: its decimal digits.
RECURSIVE Str(_)
Str(n) ==
    IF n < 0 THEN <<"-">> \o Str(-n)
    ELSE IF n < 10 THEN <<Digit(n)>>
    ELSE Str(n \div 10) \o <<Digit(n % 10)>>

\* The set of the elements of a sequence.
Range(s) == {s[i] : i \in 1..Len(s)}

\* All sequences over S of length at most n.
SeqsUpTo(S, n) == UNION {[1..k -> S] : k \in 0..n}

\* list.count(x)
Count(s, x) == Cardinality({i \in 1..Len(s) : s[i] = x})

\* s[n:] for 0 <= n
DropFirst(s, n) == IF n >= Len(s) THEN <<>> ELSE SubSeq(s, n + 1, Len(s))

(***************************************************************************)
(* Module constants of hdf5.py.                                            *)
(***************************************************************************)
LATEST_HDF5STATE_VERSION == <<"1", ".", "1">>

RESULTS_TABLE_COLUMNS ==
    <<"indices", "labels", "predictor_classifiers", "predictor_query_strategies",
      "predictor_balance_strategies", "predictor_feature_extraction",
      "predictor_training_sets", "labeling_times">>

Columns == Range(RESULTS_TABLE_COLUMNS)

\* pd.DataFrame(columns=RESULTS_TABLE_COLUMNS): every column empty.
EmptyResults == [c \in Columns |-> <<>>]

(***************************************************************************)
(* The values the model draws from.                                        *)
(***************************************************************************)
\* Classifier names (opaque strings to the state).
NB == <<"n", "b">>
NB1 == <<"n", "b", "1">>

\* The record identifiers of the dataset, by position.
RecordTables == {<<10, 20>>}
\* Further record tables, of containers with an empty log.
MoreRecordTables == {<<20, 10, 30>>, <<>>}
\* A record identifier that no record table holds.
UnknownId ==
    CHOOSE id \in {99} :
        \A t \in RecordTables \cup MoreRecordTables : \A i \in 1..Len(t) : t[i] # id

\* One row of the results table.
Row(idx, strat, clf, ts) ==
    [indices |-> idx, labels |-> 1 - idx, predictor_classifiers |-> clf,
     predictor_query_strategies |-> strat,
     predictor_balance_strategies |-> "double",
     predictor_feature_extraction |-> "tfidf",
     predictor_training_sets |-> ts, labeling_times |-> 1000 + idx]

Rows ==
    {Row(idx, strat, m[1], m[2]) :
        idx \in {0, 1}, strat \in {"prior", "max"}, m \in {<<NB1, 2>>, <<NB, 12>>}}

\* The results table holding the rows rs, column by column.
TableOf(rs) == [c \in Columns |-> [i \in 1..Len(rs) |-> rs[i][c]]]

Logs == {TableOf(rs) : rs \in SeqsUpTo(Rows, MaxRows)}

Time(kind, t) == [type |-> kind, v |-> t]
Times == {100, 200}

V(s) == [has_version |-> TRUE, version |-> s]
Metadata(ver, start, end) ==
    [has_version |-> ver.has_version, version |-> ver.version,
     start_time |-> start, end_time |-> end, settings |-> "{}"]

\* A container file: the zip archive with settings_metadata.json and
\* results.sql (tables results and record_table), as another writer left it.
Container(meta, has_meta, res, rt) ==
    [is_file |-> TRUE, has_meta |-> has_meta, meta |-> meta, results |-> res,
     has_record_table |-> rt # None,
     record_table |-> IF rt = None THEN <<>> ELSE Val(rt)]

NoFile ==
    [is_file |-> FALSE, has_meta |-> FALSE,
     meta |-> Metadata(V(<<>>), Time("int", 0), Time("str", 0)),
     results |-> EmptyResults, has_record_table |-> FALSE, record_table |-> <<>>]

GoodMeta == Metadata(V(LATEST_HDF5STATE_VERSION), Time("int", 100), Time("str", 0))

\* Containers whose version, metadata, record table or columns are off.
OddContainers ==
    {Container(Metadata(V(v), Time("int", 100), Time("str", 0)), TRUE,
               EmptyResults, Some(<<10, 20>>)) :
        v \in {<<"1", ".", "0">>, <<"2", ".", "0">>, <<"1", "0", ".", "0">>, <<>>}}
    \cup {Container(Metadata([has_version |-> FALSE, version |-> <<>>],
                             Time("int", 100), Time("str", 0)), TRUE,
                    EmptyResults, Some(<<10, 20>>))}
    \cup {Container(GoodMeta, FALSE, EmptyResults, Some(<<10, 20>>))}
    \cup {Container(GoodMeta, TRUE, EmptyResults, None)}
    \cup {Container(GoodMeta, TRUE, [c \in Columns \ {d} |-> <<>>], Some(<<10, 20>>)) :
            d \in Columns}

\* The metadata of a session whose end_time a writer stored as microseconds.
ClosedMeta == Metadata(V(LATEST_HDF5STATE_VERSION), Time("int", 100), Time("int", 200))

Disks ==
    {NoFile}
    \cup {Container(ClosedMeta, TRUE, EmptyResults, Some(rt)) : rt \in RecordTables}
    \cup {Container(GoodMeta, TRUE, log, Some(rt)) : log \in Logs, rt \in RecordTables}
    \cup {Container(GoodMeta, TRUE, EmptyResults, Some(rt)) : rt \in MoreRecordTables}
    \cup OddContainers

(***************************************************************************)
(* What a call leaves for its caller.                                      *)
(***************************************************************************)
Idle == [op |-> "idle", args |-> <<>>, err |-> "none", line |-> 0, val |-> <<>>]

\* The outcome of a computation: a value, or an exception and its line.
Returns(v) == [err |-> "none", line |-> 0, val |-> v]
Raises(e, l) == [err |-> e, line |-> l, val |-> <<>>]

Outcome(op, args, o) ==
    [op |-> op, args |-> args, err |-> o.err, line |-> o.line, val |-> o.val]

\* HDF5State.__init__(self, read_only=True): the mode of the handle, from the
\* argument of the constructor where one is given.
__init__(arg) == IF IsNone(arg) THEN TRUE ELSE Val(arg)

InitArgs == {None, Some(TRUE), Some(FALSE)}

Init ==
    /\ \E arg \in InitArgs :
        /\ read_only = __init__(arg)
        /\ ret = Outcome("__init__", <<arg>>, Returns(None))
    /\ pc = "new"
    /\ f = "unset"
    /\ settings_metadata = NoFile.meta
    /\ results = EmptyResults
    /\ record_table = None
    /\ disk \in Disks

(***************************************************************************)
(* Properties of the state (hdf5.py, "PROPERTIES").                        *)
(***************************************************************************)
\* len(self.results)
n_records_labeled == Len(results["indices"])

\* list(...).count('prior'), None when that is 0.
n_priors ==
    LET n == Count(results["predictor_query_strategies"], "prior")
    IN  IF n = 0 THEN None ELSE Some(n)

\* The model ids are the strings classifier + str(training set) of the rows
\* from n_priors on (list[None:] is the whole list); np.unique counts them.
n_predictor_models ==
    LET n == IF IsNone(n_priors) THEN 0 ELSE Val(n_priors)
        predictor_classifiers == DropFirst(results["predictor_classifiers"], n)
        all_sets == results["predictor_training_sets"]
        predictor_training_sets ==
            DropFirst([i \in 1..Len(all_sets) |-> Str(all_sets[i])], n)
        model_ids ==
            [i \in 1..Len(predictor_classifiers) |->
                predictor_classifiers[i] \o predictor_training_sets[i]]
    IN  Cardinality(Range(model_ids)) + 1

\* An emptiness test that looks at the priors instead of the rows.
is_empty_no_priors == IsNone(n_priors)

is_empty == n_records_labeled = 0

\* self.version[0] == LATEST_HDF5STATE_VERSION[0], with what it raises.
_is_valid_version(meta) ==
    IF ~meta.has_version THEN Raises("AttributeError", 216)
    ELSE IF meta.version = <<>> THEN Raises("IndexError", 208)
    ELSE Returns(meta.version[1] = LATEST_HDF5STATE_VERSION[1])

\* A check that looks for the first required column only.
_is_valid_state_first_column(tbl) ==
    IF RESULTS_TABLE_COLUMNS[1] \notin DOMAIN tbl
    THEN Raises("KeyError", 187)
    ELSE Returns(None)

\* The first required column missing from the table raises KeyError.
_is_valid_state(tbl) ==
    IF \E i \in 1..Len(RESULTS_TABLE_COLUMNS) : RESULTS_TABLE_COLUMNS[i] \notin DOMAIN tbl
    THEN Raises("KeyError", 187)
    ELSE Returns(None)

(***************************************************************************)
(* Creating and restoring (hdf5.py, "OPEN, CLOSE, SAVE, INIT").            *)
(***************************************************************************)
\* _create_new_state_file(fp)
Create ==
    /\ pc = "new"
    /\ IF read_only
       THEN /\ ret' = Outcome("create", <<>>, Raises("ValueError", 113))
            /\ pc' = "failed"
            /\ UNCHANGED <<f, settings_metadata, results, disk>>
       ELSE \E now \in Times :
            LET meta == Metadata(V(LATEST_HDF5STATE_VERSION), Time("str", now),
                                 Time("str", 0))
            IN  /\ f' = "open"
                /\ settings_metadata' = meta
                /\ results' = EmptyResults
                \* The archive is opened in mode 'a': the entries written now
                \* are the ones a later reader finds under these names.
                /\ disk' = Container(meta, TRUE, EmptyResults, None)
                /\ pc' = "ready"
                /\ ret' = Outcome("create", <<>>, Returns(None))
    /\ UNCHANGED <<read_only, record_table>>

\* A restore that opens the archive without the is_file test.
RestoreOutcome_no_file_check ==
    IF ~disk.has_meta THEN Raises("AttributeError", 163)
    ELSE IF ~disk.has_record_table THEN Raises("DatabaseError", 169)
    ELSE LET v == _is_valid_version(disk.meta)
         IN  IF v.err = "AttributeError" THEN Raises("ValueError", 177)
             ELSE IF v.err # "none" THEN v
             ELSE IF ~v.val THEN Raises("ValueError", 173)
             ELSE _is_valid_state(disk.results)

\* _restore(fp): what it raises, after the attributes assigned before that.
RestoreOutcome ==
    IF ~disk.is_file THEN Raises("StateNotFoundError", 151)
    ELSE IF ~disk.has_meta THEN Raises("AttributeError", 163)
    ELSE IF ~disk.has_record_table THEN Raises("DatabaseError", 169)
    ELSE LET v == _is_valid_version(disk.meta)
         IN  IF v.err = "AttributeError" THEN Raises("ValueError", 177)
             ELSE IF v.err # "none" THEN v
             ELSE IF ~v.val THEN Raises("ValueError", 173)
             ELSE _is_valid_state(disk.results)

Restore ==
    /\ pc = "new"
    /\ LET o == RestoreOutcome
       IN  /\ ret' = Outcome("restore", <<>>, o)
           /\ pc' = IF o.err = "none" THEN "ready" ELSE "failed"
           /\ f' = IF o.line = 151 THEN f ELSE "open"
           /\ settings_metadata' =
                  IF o.line \in {151, 163} THEN settings_metadata ELSE disk.meta
           /\ results' = IF o.line \in {151, 163} THEN results ELSE disk.results
           /\ record_table' =
                  IF o.line \in {151, 163, 169} THEN record_table
                  ELSE Some(disk.record_table)
    /\ UNCHANGED <<read_only, disk>>

\* The caller takes the result of the call; the next call can start.
Return ==
    /\ ret.op # "idle"
    /\ ret' = Idle
    /\ UNCHANGED <<read_only, pc, f, settings_metadata, results, record_table, disk>>

Ready == pc = "ready" /\ ret = Idle

(***************************************************************************)
(* The record table (hdf5.py, "METHODS/FUNC").                             *)
(***************************************************************************)
\* A lookup that answers -1 for an id the table does not hold (as str.find
\* does) where the code raises.
_record_id_to_row_index_find(record_id) ==
    IF IsNone(record_table) THEN Raises("AttributeError", 478)
    ELSE LET tbl == Val(record_table)
             hits == {i \in 1..Len(tbl) : tbl[i] = record_id}
         IN  IF hits = {} THEN Returns(-1)
             ELSE Returns((CHOOSE i \in hits : \A j \in hits : i <= j) - 1)

\* np.where(self.record_table == record_id)[0][0]: the first position (from
\* 0) holding the id; indexing the empty match raises IndexError; a state
\* that was created, not restored, has no record_table attribute.
_record_id_to_row_index(record_id) ==
    IF IsNone(record_table) THEN Raises("AttributeError", 478)
    ELSE LET tbl == Val(record_table)
             hits == {i \in 1..Len(tbl) : tbl[i] = record_id}
         IN  IF hits = {} THEN Raises("IndexError", 478)
             ELSE Returns((CHOOSE i \in hits : \A j \in hits : i <= j) - 1)

\* A positional lookup that is off by one: it answers the next record's id.
_row_index_to_record_id_next(row_index) ==
    IF IsNone(record_table) THEN Raises("AttributeError", 494)
    ELSE LET tbl == Val(record_table)
         IN  IF row_index >= Len(tbl) \/ row_index < -Len(tbl)
             THEN Raises("IndexError", 494)
             ELSE Returns(tbl[((row_index + 1) % Len(tbl)) + 1])

\* self.record_table.iloc[row_index].item(): iloc counts a negative
\* position from the end.
_row_index_to_record_id(row_index) ==
    IF IsNone(record_table) THEN Raises("AttributeError", 494)
    ELSE LET tbl == Val(record_table)
         IN  IF row_index >= Len(tbl) \/ row_index < -Len(tbl)
             THEN Raises("IndexError", 494)
             ELSE Returns(tbl[(row_index % Len(tbl)) + 1])

RowIndexArgs == -4..4
LookupIds == {10, 20, 30, UnknownId}

RowIndexToRecordId ==
    /\ Ready
    /\ \E i \in RowIndexArgs :
        ret' = Outcome("row_index_to_record_id", <<i>>, _row_index_to_record_id(i))
    /\ UNCHANGED <<read_only, pc, f, settings_metadata, results, record_table, disk>>

RecordIdToRowIndex ==
    /\ Ready
    /\ \E id \in LookupIds :
        ret' = Outcome("record_id_to_row_index", <<id>>, _record_id_to_row_index(id))
    /\ UNCHANGED <<read_only, pc, f, settings_metadata, results, record_table, disk>>

(***************************************************************************)
(* add_labeling_data.                                                      *)
(***************************************************************************)
AddInputs ==
    [record_ids : {<<>>, <<10>>, <<UnknownId>>, <<20, 10>>, <<10, UnknownId>>},
     labels : {<<1>>, <<0, 1>>},
     models : {<<NB>>, <<NB, NB1>>},
     methods : {<<"prior">>, <<"prior", "max">>},
     training_sets : {<<2>>, <<2, 12>>},
     labeling_times : {<<1005>>, <<1005, 1006>>}]

\* A length check that compares the first two sequences only.
SameLength_first_two(inp) == Len(inp.record_ids) = Len(inp.labels)

\* len(set(lengths)) == 1
SameLength(inp) ==
    Cardinality({Len(inp.record_ids), Len(inp.labels), Len(inp.models),
                 Len(inp.methods), Len(inp.training_sets),
                 Len(inp.labeling_times)}) = 1

\* results = self.f['results']: self.f is a zipfile.ZipFile, which has no
\* item access, so the first statement raises TypeError whatever the
\* dataset and the values are.
_append_to_dataset(dataset, values) == Raises("TypeError", 428)

\* The datasets add_labeling_data appends to, in its order, with the values.
AppendCalls(inp, indices) ==
    <<<<"indices", indices>>, <<"labels", inp.labels>>,
      <<"predictor_models", inp.models>>, <<"predictor_methods", inp.methods>>,
      <<"predictor_training_sets", inp.training_sets>>,
      <<"labeling_times", inp.labeling_times>>>>

\* add_labeling_data(...): what it raises or returns.
add_labeling_data_out(inp) ==
    LET valid == _is_valid_state(results)
        conv == [i \in 1..Len(inp.record_ids) |->
                    _record_id_to_row_index(inp.record_ids[i])]
        bad == {i \in 1..Len(conv) : conv[i].err # "none"}
        indices == [i \in 1..Len(conv) |-> conv[i].val]
        calls == AppendCalls(inp, indices)
        appended == [i \in 1..Len(calls) |-> _append_to_dataset(calls[i][1], calls[i][2])]
        failed == {i \in 1..Len(calls) : appended[i].err # "none"}
    IN  IF valid.err # "none" THEN valid
        ELSE IF ~SameLength(inp) THEN Raises("ValueError", 443)
        ELSE IF bad # {} THEN conv[CHOOSE i \in bad : \A j \in bad : i <= j]
        ELSE IF failed # {}
             THEN appended[CHOOSE i \in failed : \A j \in failed : i <= j]
        ELSE Returns(None)

\* An append that, once the input is checked, writes the labels into the
\* cached table before the container write raises: a partial append.
add_labeling_data_partial(inp) ==
    LET o == add_labeling_data_out(inp)
    IN  [out |-> o,
         results |-> IF o.line = 428
                     THEN [results EXCEPT !["labels"] = @ \o inp.labels]
                     ELSE results]

\* An append that, once the input is checked, puts the new labels in place
\* of the last cached ones instead of after them.
add_labeling_data_in_place(inp) ==
    LET o == add_labeling_data_out(inp)
        old == results["labels"]
        keep == IF Len(old) > Len(inp.labels) THEN Len(old) - Len(inp.labels) ELSE 0
    IN  [out |-> o,
         results |-> IF o.line = 428
                     THEN [results EXCEPT !["labels"] =
                              SubSeq(old, 1, keep)
                              \o SubSeq(inp.labels, 1, Len(old) - keep)]
                     ELSE results]

\* add_labeling_data(...): its outcome (out) and the cached results table
\* afterwards (results), which no statement of it assigns.
add_labeling_data(inp) ==
    [out |-> add_labeling_data_out(inp), results |-> results]

AddLabelingData ==
    /\ Ready
    /\ \E inp \in AddInputs :
        LET r == add_labeling_data(inp)
        IN  /\ ret' = Outcome("add_labeling_data", inp, r.out)
            /\ results' = r.results
    /\ UNCHANGED <<read_only, pc, f, settings_metadata, record_table, disk>>

(***************************************************************************)
(* Column reads.                                                           *)
(***************************************************************************)
\* np.array(column)[dataset_slice]: every position must lie within
\* -len .. len-1, a negative one counts from the end.
NumpyTake(column, slice, line) ==
    IF \E k \in 1..Len(slice) : slice[k] >= Len(column) \/ slice[k] < -Len(column)
    THEN Raises("IndexError", line)
    ELSE Returns([k \in 1..Len(slice) |-> column[(slice[k] % Len(column)) + 1]])

\* The ascending sequence of the members of a set of integers.
RECURSIVE Sorted(_)
Sorted(S) ==
    IF S = {} THEN <<>>
    ELSE LET m == CHOOSE x \in S : \A y \in S : x <= y
         IN  <<m>> \o Sorted(S \ {m})

\* A selection that compares the stored row positions with the record id
\* itself, not with its position in the record table.
dataset_slice_by_id(query, record_id) ==
    IF ~IsNone(query)
    THEN IF Val(query) = 0
         THEN IF IsNone(n_priors) THEN Raises("TypeError", 522)
              ELSE Returns([i \in 1..Val(n_priors) |-> i - 1])
         ELSE IF IsNone(n_priors) THEN Raises("TypeError", 525)
              ELSE Returns(<<Val(query) + Val(n_priors) - 1>>)
    ELSE IF ~IsNone(record_id)
    THEN LET idx == _record_id_to_row_index(Val(record_id))
         IN  IF idx.err # "none" THEN idx
             ELSE Returns(Sorted({i - 1 : i \in {j \in 1..Len(results["indices"]) :
                                                    results["indices"][j] = Val(record_id)}}))
    ELSE Returns([i \in 1..n_records_labeled |-> i - 1])

\* The rows _get_dataset selects (positions from 0).
dataset_slice(query, record_id) ==
    IF ~IsNone(query)
    THEN IF Val(query) = 0
         THEN IF IsNone(n_priors) THEN Raises("TypeError", 522)
              ELSE Returns([i \in 1..Val(n_priors) |-> i - 1])
         ELSE IF IsNone(n_priors) THEN Raises("TypeError", 525)
              ELSE Returns(<<Val(query) + Val(n_priors) - 1>>)
    ELSE IF ~IsNone(record_id)
    THEN LET idx == _record_id_to_row_index(Val(record_id))
         IN  IF idx.err # "none" THEN idx
             ELSE Returns(Sorted({i - 1 : i \in {j \in 1..Len(results["indices"]) :
                                                    results["indices"][j] = idx.val}}))
    ELSE Returns([i \in 1..n_records_labeled |-> i - 1])

\* A read without the test for both arguments: the query wins.
_get_dataset_query_first(results_column, query, record_id) ==
    LET slice == dataset_slice(query, record_id)
    IN  IF slice.err # "none" THEN slice
        ELSE NumpyTake(results[results_column], slice.val, 535)

_get_dataset(results_column, query, record_id) ==
    IF ~IsNone(query) /\ ~IsNone(record_id) THEN Raises("ValueError", 517)
    ELSE LET slice == dataset_slice(query, record_id)
         IN  IF slice.err # "none" THEN slice
             ELSE NumpyTake(results[results_column], slice.val, 535)

\* get_labeling_time(query, record_id, format='int')
get_labeling_time(query, record_id) ==
    LET times == _get_dataset("labeling_times", query, record_id)
    IN  IF times.err # "none" THEN times
        ELSE IF query = Some(0)
        THEN NumpyTake(times.val, <<Val(n_priors) - 1>>, 692)
        ELSE times

\* The accessor of a column: get_labels, get_predictor_classifiers, ...,
\* get_labeling_time; the indices are read by _get_dataset itself.
GetColumnOf(results_column, query, record_id) ==
    IF results_column = "labeling_times" THEN get_labeling_time(query, record_id)
    ELSE _get_dataset(results_column, query, record_id)

Queries == {None} \cup {Some(k) : k \in -1..MaxQuery}
RecordIdArgs == {None} \cup {Some(r) : r \in {10, 20, UnknownId}}

GetColumn ==
    /\ Ready
    /\ \E c \in Columns, q \in Queries, r \in RecordIdArgs :
        ret' = Outcome("get_column", <<c, q, r>>, GetColumnOf(c, q, r))
    /\ UNCHANGED <<read_only, pc, f, settings_metadata, results, record_table, disk>>

(***************************************************************************)
(* Times, settings, replay, features, save and close.                      *)
(***************************************************************************)
\* datetime.utcfromtimestamp(t / 10**6): the seconds and the microseconds of
\* a timestamp stored as microseconds.
utcfromtimestamp(t) == [second |-> t \div (10 ^ 6), microsecond |-> t % (10 ^ 6)]

\* A time getter: a stored string cannot be divided (TypeError), and the
\* except clause turns every exception into AttributeError.
TimeGetter(stored, line) ==
    IF stored.type = "int" THEN Returns(utcfromtimestamp(stored.v))
    ELSE Raises("AttributeError", line)

start_time == TimeGetter(settings_metadata.start_time, 227)

end_time == TimeGetter(settings_metadata.end_time, 236)

GetStartTime ==
    /\ Ready
    /\ ret' = Outcome("start_time", <<>>, start_time)
    /\ UNCHANGED <<read_only, pc, f, settings_metadata, results, record_table, disk>>

GetEndTime ==
    /\ Ready
    /\ ret' = Outcome("end_time", <<>>, end_time)
    /\ UNCHANGED <<read_only, pc, f, settings_metadata, results, record_table, disk>>

\* end_time.setter: the cached metadata takes the time as microseconds;
\* nothing is written to the archive.
SetEndTime ==
    /\ Ready
    /\ \E t \in Times :
        /\ settings_metadata' = [settings_metadata EXCEPT !.end_time = Time("int", t)]
        /\ ret' = Outcome("set_end_time", <<t>>, Returns(None))
    /\ UNCHANGED <<read_only, pc, f, results, record_table, disk>>

\* The settings a caller may set, as their JSON text.
SettingsArgs == {"{}", "{model: nb}"}

\* settings.setter: self.f.attrs raises AttributeError, a ZipFile has none.
SetSettings ==
    /\ Ready
    /\ \E cfg \in SettingsArgs :
        ret' = Outcome("set_settings", <<cfg>>, Raises("AttributeError", 278))
    /\ UNCHANGED <<read_only, pc, f, settings_metadata, results, record_table, disk>>

\* The mappings of query number to method name a caller may set, as
\* sequences of <<number, method>>.
QueryMaps == {<<>>, <<<<1, "max">>>>, <<<<1, "max">>, <<2, "random">>>>}

\* current_queries.setter: the mapping is serialised, then self.f.attrs raises.
SetCurrentQueries ==
    /\ Ready
    /\ \E cq \in QueryMaps :
        ret' = Outcome("set_current_queries", <<cq>>, Raises("AttributeError", 303))
    /\ UNCHANGED <<read_only, pc, f, settings_metadata, results, record_table, disk>>

\* current_queries: settings_metadata holds the four keys _create_new_state_file
\* writes, and 'current_queries' is none of them.
current_queries == Raises("KeyError", 293)

GetCurrentQueries ==
    /\ Ready
    /\ ret' = Outcome("current_queries", <<>>, current_queries)
    /\ UNCHANGED <<read_only, pc, f, settings_metadata, results, record_table, disk>>

\* A replay that writes the labels it walks through back into the cached log.
StartupVals_writing_labels ==
    /\ Ready
    /\ ret' = Outcome("startup_vals", <<>>, Raises("AttributeError", 373))
    /\ results' = [results EXCEPT !["labels"] = [k \in 1..Len(@) |-> 1 - @[k]]]
    /\ UNCHANGED <<read_only, pc, f, settings_metadata, record_table, disk>>

\* startup_vals(): its first statement calls self.get, which is not defined
\* (base.py comments it out).
startup_vals == Raises("AttributeError", 373)

StartupVals ==
    /\ Ready
    /\ ret' = Outcome("startup_vals", <<>>, startup_vals)
    /\ UNCHANGED <<read_only, pc, f, settings_metadata, results, record_table, disk>>

\* pred_proba: the loop over reversed(range(n_predictor_models)) calls
\* self.get, which is not defined; only KeyError is caught.
pred_proba ==
    IF n_predictor_models = 0 THEN Returns(None)
    ELSE Raises("AttributeError", 425)

PredProba ==
    /\ Ready
    /\ ret' = Outcome("pred_proba", <<>>, pred_proba)
    /\ UNCHANGED <<read_only, pc, f, settings_metadata, results, record_table, disk>>

\* settings: the stored settings are JSON text, never None, and
\* ASReviewSettings(**settings) raises TypeError for a ** argument that is a
\* string.
settings == Raises("TypeError", 274)

\* get_order_of_labeling(): the record id of every stored position, in log
\* order; the first lookup that raises ends the call.
get_order_of_labeling ==
    LET indices == _get_dataset("indices", None, None)
    IN  IF indices.err # "none" THEN indices
        ELSE LET ids == [k \in 1..Len(indices.val) |->
                            _row_index_to_record_id(indices.val[k])]
                 bad == {k \in 1..Len(ids) : ids[k].err # "none"}
             IN  IF bad # {}
                 THEN ids[CHOOSE k \in bad : \A j \in bad : k <= j]
                 ELSE Returns([k \in 1..Len(ids) |-> ids[k].val])

GetOrderOfLabeling ==
    /\ Ready
    /\ ret' = Outcome("get_order_of_labeling", <<>>, get_order_of_labeling)
    /\ UNCHANGED <<read_only, pc, f, settings_metadata, results, record_table, disk>>

\* to_dict(): the settings are read first; get_predictor_models, the fourth
\* read, is a method no class defines.
to_dict ==
    LET labels == GetColumnOf("labels", None, None)
    IN  IF settings.err # "none" THEN settings
        ELSE IF get_order_of_labeling.err # "none" THEN get_order_of_labeling
        ELSE IF labels.err # "none" THEN labels
        ELSE Raises("AttributeError", 464)

ToDict ==
    /\ Ready
    /\ ret' = Outcome("to_dict", <<>>, to_dict)
    /\ UNCHANGED <<read_only, pc, f, settings_metadata, results, record_table, disk>>

\* The dataset hashes and the feature matrices (encoding and content) a
\* caller may store.
DataHashes == {"h1", "h2"}
FeatureMatrices ==
    {None} \cup {Some([type |-> t, data |-> d]) :
                    t \in {"ndarray", "csr_matrix"}, d \in {"m1", "m2"}}

\* _add_as_data: self.f["/data_properties"] raises TypeError, a ZipFile takes
\* no item, and the except clause catches KeyError only.
_add_as_data(data_hash, feature_matrix) == Raises("TypeError", 354)

AddAsData ==
    /\ Ready
    /\ \E h \in DataHashes, m \in FeatureMatrices :
        ret' = Outcome("add_as_data", <<h, m>>, _add_as_data(h, m))
    /\ UNCHANGED <<read_only, pc, f, settings_metadata, results, record_table, disk>>

\* get_feature_matrix(self): the method takes no hash, so a call with one
\* raises TypeError; without one it opens 'feature_matrix.npz', an entry no
\* statement writes: KeyError, or ValueError once the archive is closed.
get_feature_matrix(data_hash) ==
    IF ~IsNone(data_hash) THEN Raises("TypeError", 389)
    ELSE IF f = "closed" THEN Raises("ValueError", 390)
    ELSE Raises("KeyError", 390)

GetFeatureMatrix ==
    /\ Ready
    /\ \E h \in {None} \cup {Some(d) : d \in DataHashes} :
        ret' = Outcome("get_feature_matrix", <<h>>, get_feature_matrix(h))
    /\ UNCHANGED <<read_only, pc, f, settings_metadata, results, record_table, disk>>

\* A save that stores the time of the save as end_time.
Save_writing_end_time ==
    /\ Ready
    /\ ret' = Outcome("save", <<>>, Returns(None))
    /\ settings_metadata' = [settings_metadata EXCEPT !.end_time = Time("str", 200)]
    /\ UNCHANGED <<read_only, pc, f, results, record_table, disk>>

\* save(): self.f['end_time'] = ... raises TypeError, a ZipFile takes no item.
Save ==
    /\ Ready
    /\ ret' = Outcome("save", <<>>, Raises("TypeError", 191))
    /\ UNCHANGED <<read_only, pc, f, settings_metadata, results, record_table, disk>>

\* close(): read-write, self.f.attrs raises before the archive is closed;
\* read-only, the archive is closed.
close ==
    IF read_only THEN [f |-> "closed", out |-> Returns(None)]
    ELSE [f |-> f, out |-> Raises("AttributeError", 198)]

Close ==
    /\ Ready
    /\ f' = close.f
    /\ ret' = Outcome("close", <<>>, close.out)
    /\ UNCHANGED <<read_only, pc, settings_metadata, results, record_table, disk>>

\* What the body of a with statement ends with: nothing, or an exception.
BodyEnds == {None, Some("RuntimeError")}

\* __exit__(*exc): close() is called once; an exception of close() leaves the
\* with statement in place of the body's, and __exit__ answers None, so the
\* body's exception goes on to the caller when close() returns.
__exit__ ==
    /\ Ready
    /\ \E exc \in BodyEnds :
        LET c == close
            o == IF c.out.err # "none" THEN c.out
                 ELSE IF exc # None THEN Raises(Val(exc), 0)
                 ELSE Returns(None)
        IN  /\ f' = c.f
            /\ ret' = Outcome("with", <<exc>>, o)
    /\ UNCHANGED <<read_only, pc, settings_metadata, results, record_table, disk>>

Next ==
    \/ Create
    \/ Restore
    \/ Return
    \/ AddLabelingData
    \/ GetColumn
    \/ RowIndexToRecordId
    \/ RecordIdToRowIndex
    \/ SetSettings
    \/ SetCurrentQueries
    \/ StartupVals
    \/ Save
    \/ Close
    \/ GetStartTime
    \/ GetEndTime
    \/ SetEndTime
    \/ GetCurrentQueries
    \/ PredProba
    \/ AddAsData
    \/ __exit__
    \/ GetOrderOfLabeling
    \/ ToDict
    \/ GetFeatureMatrix

Spec == Init /\ [][Next]_vars

(***************************************************************************)
(* The claims.  A step that is a call of add_labeling_data starts from an  *)
(* idle caller and leaves the input in ret'.args.                          *)
(***************************************************************************)
AddStep == ret.op = "idle" /\ ret'.op = "add_labeling_data"

InputLengths(inp) ==
    {Len(inp.record_ids), Len(inp.labels), Len(inp.models), Len(inp.methods),
     Len(inp.training_sets), Len(inp.labeling_times)}

EqualLengths(inp) == Cardinality(InputLengths(inp)) = 1

KnownIds == IF IsNone(record_table) THEN {} ELSE Range(Val(record_table))

\* The position (from 0) of a known id in the record table.
PositionOf(id) ==
    LET tbl == Val(record_table)
    IN  (CHOOSE i \in 1..Len(tbl) : tbl[i] = id /\ \A j \in 1..(i - 1) : tbl[j] # id) - 1

ValidInput(inp) == EqualLengths(inp) /\ Range(inp.record_ids) \subseteq KnownIds

\* Every column of table t is a prefix of the same column of table u.
IsPrefixOf(t, u) ==
    \A c \in Columns :
        /\ Len(t[c]) <= Len(u[c])
        /\ SubSeq(u[c], 1, Len(t[c])) = t[c]

\* The number of leading "prior" entries of a strategy column.
LeadingPriorRun(s) ==
    Cardinality({i \in 1..Len(s) : \A j \in 1..i : s[j] = "prior"})

\* C1: every valid add_labeling_data call on a read-write session returns,
\* grows the log by its input length, and leaves the input values at the end
\* of their columns in input order (so n_records_labeled is the total number
\* of rows appended).
C1_ValidAppendGrowsLog ==
    [][(AddStep /\ ~read_only /\ ValidInput(ret'.args)) =>
        LET inp == ret'.args
        IN  /\ ret'.err = "none"
            /\ Len(results'["indices"]) = Len(results["indices"]) + Len(inp.record_ids)
            /\ results'["indices"] =
                   results["indices"]
                   \o [i \in 1..Len(inp.record_ids) |-> PositionOf(inp.record_ids[i])]
            /\ results'["labels"] = results["labels"] \o inp.labels
            /\ results'["predictor_classifiers"] =
                   results["predictor_classifiers"] \o inp.models
            /\ results'["predictor_query_strategies"] =
                   results["predictor_query_strategies"] \o inp.methods
            /\ results'["predictor_training_sets"] =
                   results["predictor_training_sets"] \o inp.training_sets
            /\ results'["labeling_times"] =
                   results["labeling_times"] \o inp.labeling_times]_vars

\* C2: add_labeling_data with input sequences of unequal length raises the
\* ValueError of the length check and leaves every column of the log as it
\* was.
C2_UnequalLengthsRejected ==
    [][(AddStep /\ ~EqualLengths(ret'.args)) =>
        /\ ret'.err = "ValueError"
        /\ ret'.line = 443
        /\ results' = results]_vars

C2_Witness ==
    /\ ret.op = "add_labeling_data"
    /\ ~EqualLengths(ret.args)
    /\ ret.err = "ValueError"
    /\ n_records_labeled > 0

\* Python's exception hierarchy: IndexError and KeyError are LookupErrors.
IsLookupError(e) == e \in {"LookupError", "IndexError", "KeyError"}

ReadOnlyRaises == {113}
IsReadOnlyViolation(r) == r.err # "none" /\ r.line \in ReadOnlyRaises

\* C4: add_labeling_data on a read-only state fails with a read-only
\* violation for every input and leaves the log unchanged.
C4_ReadOnlyAppendRejected ==
    [][(AddStep /\ read_only) =>
        /\ IsReadOnlyViolation(ret')
        /\ results' = results]_vars

\* C5: the log is append-only: over every call on a ready state (append,
\* column read, settings and current_queries update, startup_vals, save,
\* close) and its return the log before is a prefix of the log after, column
\* by column.
C5_LogAppendOnly ==
    [][(pc = "ready") => IsPrefixOf(results, results')]_vars

C5_Witness ==
    /\ f = "closed"
    /\ ret.op = "add_labeling_data"
    /\ ValidInput(ret.args)
    /\ n_records_labeled > 0

\* C6: an append is all or nothing: after a call of add_labeling_data all
\* eight columns have grown by the same number of rows, which is 0 when the
\* call raised and the input length when it returned.
C6_AppendAllOrNothing ==
    [][AddStep =>
        \E n \in {0} \cup InputLengths(ret'.args) :
            /\ \A c \in Columns : Len(results'[c]) = Len(results[c]) + n
            /\ (ret'.err # "none") => n = 0
            /\ (ret'.err = "none") =>
                   (EqualLengths(ret'.args) /\ n = Len(ret'.args.record_ids))]_vars

C6_Witness ==
    /\ ret.op = "add_labeling_data"
    /\ ValidInput(ret.args)
    /\ Len(ret.args.record_ids) = 2
    /\ ret.err # "none"
    /\ \A c \in Columns : Len(results[c]) = 1

\* C7: n_priors is None when no row has query strategy "prior" and otherwise
\* the length of the leading run of "prior" rows.
C7_NPriorsIsLeadingRun ==
    (pc = "ready") =>
        LET s == results["predictor_query_strategies"]
        IN  n_priors = IF "prior" \notin Range(s) THEN None
                       ELSE Some(LeadingPriorRun(s))

\* C8: n_predictor_models is 1 plus the number of distinct pairs
\* (classifier, training set) among the rows after the prior block.
C8_NPredictorModelsCountsPairs ==
    (pc = "ready") =>
        LET first == LeadingPriorRun(results["predictor_query_strategies"]) + 1
            pairs == {<<results["predictor_classifiers"][i],
                        results["predictor_training_sets"][i]>> :
                            i \in first..n_records_labeled}
        IN  n_predictor_models = 1 + Cardinality(pairs)

\* A column read: ret.args is <<column, query, record_id>>.
ReadOf(r) == r.op = "get_column"

\* C9: a column read with query == 0 returns the values of rows
\* [0, n_priors) of the column in log order, and the empty result, without
\* raising, when n_priors is None.
C9_QueryZeroReadsPriorBlock ==
    (ReadOf(ret) /\ ret.args[2] = Some(0) /\ ret.args[3] = None) =>
        /\ ret.err = "none"
        /\ ret.val = IF IsNone(n_priors) THEN <<>>
                     ELSE SubSeq(results[ret.args[1]], 1, Val(n_priors))

\* C10: a column read with query == k >= 1 returns the one value at row
\* n_priors + k - 1 (an unknown n_priors standing for no prior rows) and
\* raises IndexError when the log has no such row.
C10_QueryKReadsOneRow ==
    (ReadOf(ret) /\ ret.args[2] # None /\ ret.args[3] = None) =>
        LET k == Val(ret.args[2])
            row == (IF IsNone(n_priors) THEN 0 ELSE Val(n_priors)) + k - 1
            column == results[ret.args[1]]
        IN  (k >= 1) =>
                IF row < Len(column)
                THEN ret.err = "none" /\ ret.val = <<column[row + 1]>>
                ELSE ret.err = "IndexError"

\* The argument errors of the column reads are ValueErrors (hdf5.py:517).
IsArgumentError(r) == r.err = "ValueError"

\* C11: a column read with a negative query number raises an argument
\* error on every log and never returns a value.
C11_NegativeQueryRejected ==
    (ReadOf(ret) /\ ret.args[2] # None /\ ret.args[3] = None) =>
        ((Val(ret.args[2]) < 0) => IsArgumentError(ret))

\* The step is a column read: ret'.args is <<column, query, record_id>>.
ReadStep == ret.op = "idle" /\ ret'.op = "get_column"

\* C12: a column read given both a query and a record_id raises the
\* ValueError of hdf5.py:517, for every column and whatever the two values
\* are, and changes nothing of the state.
C12_QueryAndRecordIdRejected ==
    [][(ReadStep /\ ret'.args[2] # None /\ ret'.args[3] # None) =>
        /\ IsArgumentError(ret')
        /\ ret'.line = 517
        /\ UNCHANGED <<read_only, pc, f, settings_metadata, results,
                       record_table, disk>>]_vars

C12_Witness ==
    /\ ReadOf(ret)
    /\ ret.args = <<"labels", Some(1), Some(10)>>
    /\ ret.err = "ValueError"
    /\ n_records_labeled > 0

\* The values of a column at the rows whose stored position is pos, in log
\* order.
RECURSIVE ValuesAt(_, _, _)
ValuesAt(column, positions, pos) ==
    IF column = <<>> THEN <<>>
    ELSE (IF Head(positions) = pos THEN <<Head(column)>> ELSE <<>>)
         \o ValuesAt(Tail(column), Tail(positions), pos)

\* C13: a column read with the record_id of a record of the record table
\* returns, in log order, the column values of exactly the rows whose stored
\* position is the position of that id in the record table: none when the
\* record was never labeled, several when it was labeled several times.
C13_RecordIdReadsItsRows ==
    (pc = "ready" /\ ReadOf(ret) /\ ret.args[2] = None /\ ret.args[3] # None) =>
        ((Val(ret.args[3]) \in KnownIds) =>
            /\ ret.err = "none"
            /\ ret.val = ValuesAt(results[ret.args[1]], results["indices"],
                                  PositionOf(Val(ret.args[3]))))

C13_Witness ==
    /\ pc = "ready"
    /\ ReadOf(ret)
    /\ ret.args = <<"predictor_training_sets", None, Some(20)>>
    /\ ret.err = "none"
    /\ Len(ret.val) = 2
    /\ ret.val[1] # ret.val[2]

\* C14: for every position i of the record table, the id that
\* _row_index_to_record_id(i) answers is turned back into i by
\* _record_id_to_row_index.
C14_RowIndexRoundTrip ==
    (pc = "ready" /\ ret.op = "row_index_to_record_id" /\ ~IsNone(record_table)) =>
        LET i == ret.args[1]
        IN  (0 <= i /\ i < Len(Val(record_table))) =>
                /\ ret.err = "none"
                /\ _record_id_to_row_index(ret.val).err = "none"
                /\ _record_id_to_row_index(ret.val).val = i

C14_Witness ==
    /\ pc = "ready"
    /\ ret.op = "row_index_to_record_id"
    /\ ret.args = <<2>>
    /\ ret.err = "none"
    /\ _record_id_to_row_index(ret.val).val = 2

\* C15: _row_index_to_record_id(i) answers the id at position i when
\* 0 <= i < len(record_table) and raises IndexError for every other i, the
\* negative ones included; _record_id_to_row_index(id) answers the smallest
\* position holding id and raises a LookupError when none does.
C15_LookupsAndTheirErrors ==
    (pc = "ready" /\ ~IsNone(record_table)) =>
        LET tbl == Val(record_table)
        IN  /\ (ret.op = "row_index_to_record_id") =>
                   IF 0 <= ret.args[1] /\ ret.args[1] < Len(tbl)
                   THEN ret.err = "none" /\ ret.val = tbl[ret.args[1] + 1]
                   ELSE ret.err = "IndexError"
            /\ (ret.op = "record_id_to_row_index") =>
                   IF ret.args[1] \in Range(tbl)
                   THEN ret.err = "none" /\ ret.val = PositionOf(ret.args[1])
                   ELSE IsLookupError(ret.err)

\* C16: a state just created has n_records_labeled = 0, is_empty() true
\* and n_priors None; and on every opened state is_empty() is true exactly
\* when the log has no row.
C16_NewStateIsEmpty ==
    /\ (ret.op = "create" /\ ret.err = "none") =>
           (n_records_labeled = 0 /\ is_empty /\ n_priors = None)
    /\ (pc = "ready") => (is_empty <=> Len(results["indices"]) = 0)

C16_Witness ==
    /\ ret.op = "create"
    /\ ret.err = "none"
    /\ pc = "ready"
    /\ is_empty
    /\ disk.results = EmptyResults

\* A container that restores: its metadata, version, record table and
\* columns are in order.
Usable(d) ==
    /\ d.is_file /\ d.has_meta /\ d.has_record_table
    /\ d.meta.has_version
    /\ d.meta.version # <<>>
    /\ d.meta.version[1] = LATEST_HDF5STATE_VERSION[1]
    /\ Columns \subseteq DOMAIN d.results

\* C17: creating through a read-write handle where a usable session exists
\* fails and leaves the stored session as it was.
C17_CreateOverExistingRejected ==
    [][(pc = "new" /\ ret'.op = "create" /\ ~read_only /\ Usable(disk)) =>
        /\ ret'.err # "none"
        /\ disk' = disk]_vars

\* C18: restoring a path that holds no file raises StateNotFoundError, in
\* either mode, with no archive opened and nothing created.
C18_RestoreMissingFile ==
    (ret.op = "restore" /\ ~disk.is_file) =>
        /\ ret.err = "StateNotFoundError"
        /\ f = "unset"
        /\ pc = "failed"

C18_Witness ==
    /\ ret.op = "restore"
    /\ ~disk.is_file
    /\ read_only
    /\ ret.err = "StateNotFoundError"

\* The text of a version before its first dot.
MajorToken(v) ==
    LET dots == {i \in 1..Len(v) : v[i] = "."}
    IN  IF dots = {} THEN v
        ELSE SubSeq(v, 1, (CHOOSE i \in dots : \A j \in dots : i <= j) - 1)

\* C19: a restore that reaches the version gate with a non-empty version is
\* refused by it (the ValueError of hdf5.py:173) exactly when the major token of the stored
\* version differs from the major token of the supported version.
C19_VersionGateByMajorToken ==
    (ret.op = "restore" /\ disk.is_file /\ disk.has_meta /\ disk.has_record_table
        /\ disk.meta.has_version /\ disk.meta.version # <<>>) =>
        ((ret.err = "ValueError" /\ ret.line = 173)
            <=> (MajorToken(disk.meta.version) # MajorToken(LATEST_HDF5STATE_VERSION)))

\* C20: a restore of a container whose results table lacks a required
\* column fails, with the KeyError of _is_valid_state when the rest of the
\* container is in order, and a restore that returns has all eight columns.
C20_MissingColumnRejected ==
    (ret.op = "restore") =>
        /\ (ret.err = "none") => (Columns \subseteq DOMAIN disk.results)
        /\ (~(Columns \subseteq DOMAIN disk.results)) => ret.err # "none"
        /\ (~(Columns \subseteq DOMAIN disk.results) /\ disk.has_meta
                /\ disk.has_record_table /\ disk.meta = GoodMeta) =>
               (ret.err = "KeyError" /\ ret.line = 187 /\ pc = "failed")

C20_Witness ==
    /\ ret.op = "restore"
    /\ DOMAIN disk.results = Columns \ {"labeling_times"}
    /\ ret.err = "KeyError"

\* The end_time of a session that was not closed: the empty string.
Unset == Time("str", 0)

CloseStep == ret.op = "idle" /\ ret'.op = "close"

\* C22: close() on a read-write state sets end_time to a timestamp and
\* closes the archive; close() on a read-only state closes the archive and
\* leaves end_time and everything stored as it was.
C22_CloseSetsEndTime ==
    [][CloseStep =>
        /\ ret'.err = "none"
        /\ f' = "closed"
        /\ IF read_only
           THEN UNCHANGED <<settings_metadata, results, record_table, disk>>
           ELSE settings_metadata'.end_time.type = "int"]_vars

\* C23: a with statement over a state closes the archive on its way out,
\* whether the body ended normally or raised, and the exception of the body
\* is the exception the caller gets.
C23_WithClosesAndPropagates ==
    (ret.op = "with") =>
        /\ f = "closed"
        /\ ret.err = (IF ret.args[1] = None THEN "none" ELSE Val(ret.args[1]))

\* C24: on an open state that was not closed, reading end_time while it is
\* unset returns instead of raising, and reading start_time returns the
\* datetime of the stored microseconds.
C24_TimesReadable ==
    (pc = "ready" /\ f = "open") =>
        /\ (ret.op = "end_time" /\ settings_metadata.end_time = Unset) =>
               ret.err = "none"
        /\ (ret.op = "start_time") =>
               (ret.err = "none" /\ settings_metadata.start_time.type = "int")

\* C25: setting the settings on a read-only state fails with a read-only
\* violation and leaves the settings as they were; on a read-write state the
\* settings are afterwards the ones that were set.
C25_SettingsSetter ==
    (ret.op = "set_settings") =>
        IF read_only
        THEN IsReadOnlyViolation(ret) /\ settings_metadata.settings = disk.meta.settings
        ELSE ret.err = "none" /\ settings_metadata.settings = ret.args[1]

\* C26: after current_queries is set to a mapping, reading current_queries
\* returns that mapping, and the set leaves the log alone.
C26_CurrentQueriesRoundTrip ==
    (ret.op = "set_current_queries") =>
        /\ ret.err = "none"
        /\ current_queries.err = "none"
        /\ current_queries.val = ret.args[1]
        /\ results = disk.results

C28_StartupValsOnEmptyLog ==
    (ret.op = "startup_vals" /\ n_records_labeled = 0) => ret.err = "none"

\* C29: pred_proba returns, without error, a probability vector or None.
C29_PredProbaReturns ==
    (ret.op = "pred_proba") => ret.err = "none"

\* C30: a store of a feature matrix under a dataset hash returns, having
\* stored the matrix or having done nothing.
C30_FeatureStoreReturns ==
    (ret.op = "add_as_data") => ret.err = "none"

\* C31: loading a feature matrix by a dataset hash under which nothing was
\* stored raises KeyError (and no store has stored anything: C30).
C31_FeatureMatrixLoad ==
    (ret.op = "get_feature_matrix" /\ ret.args[1] # None) => ret.err = "KeyError"

\* C32: to_dict() returns, and its order_of_labeling entry is the record ids
\* of the log rows in log order.
C32_ToDictReturns ==
    (ret.op = "to_dict") =>
        /\ ret.err = "none"
        /\ get_order_of_labeling.err = "none"
        /\ ret.val.order_of_labeling = get_order_of_labeling.val

C34_StartupValsQueryCounter ==
    (ret.op = "startup_vals" /\ n_records_labeled > 0) =>
        /\ ret.err = "none"
        /\ ret.val.query_i = n_predictor_models - 1

\* C35: a handle made without an argument is read-write, the mode never
\* changes afterwards, and a create through a read-only handle fails with
\* nothing opened or stored.
C35_ReadWriteByDefault ==
    /\ (ret.op = "__init__" /\ ret.args[1] = None) => ~read_only
    /\ (ret.op = "create" /\ read_only) =>
           (ret.err # "none" /\ f = "unset" /\ pc = "failed")

====
